---- MODULE Spec2Model ----
(***************************************************************************)
(* Model of the newtutils package.  newtutils.utility: sorting_list and    *)
(* sorting_dict_by_keys, with the helpers they call (validate_input,       *)
(* error_msg) and the Python primitives they rest on (isinstance, set,     *)
(* sorted, tuple and value comparison).  newtutils.network:                *)
(* fetch_data_from_url.  newtutils.console: select_from_input and          *)
(* _retry_pause.  newtutils.files: setup_logging and cleanup_logging.      *)
(* One call is a small state machine whose positions are the statements    *)
(* of the function.                                                        *)
(***************************************************************************)
EXTENDS Integers, Sequences, FiniteSets, TLC

VARIABLES
    fn,             \* the function under call
    json_input,     \* sorting_list: first argument
    stop,           \* sorting_list: stop flag; the stop keyword of SD_CallWithStop
    data,           \* sorting_dict_by_keys: first argument
    keys,           \* sorting_dict_by_keys: *keys, a tuple of Python values
    reverse,        \* sorting_dict_by_keys: reverse flag
    sortedRaises,   \* the `sorted` primitive is patched to raise RuntimeError
    pc,             \* position inside the call
    unique_values,  \* sorting_list local: the set, in its iteration order
    log,            \* what error_msg has printed during this call
    ret,            \* the value returned, NoValue while there is none
    exitcode,       \* code of the SystemExit that left the call, -1 if none
    round,          \* 1 for the first call, 2 for the call that follows it
    prev,           \* the finished first call, once a second one was made
    ret_obj,        \* which list object ret is: "new", "data" (the argument), "none"
    base_url,       \* fetch_data_from_url: base_url
    params,         \* fetch_data_from_url: params
    mode,           \* fetch_data_from_url: mode
    repeat_on_fail, \* fetch_data_from_url: repeat_on_fail
    response,       \* fetch_data_from_url: outcome of the latest requests.get
    requests,       \* fetch_data_from_url: number of requests.get calls made
    pauses,         \* fetch_data_from_url: number of retry pauses performed
    select_dict,    \* select_from_input: the argument
    choice,         \* select_from_input: local choice
    entered,        \* select_from_input: the text input() returned last
    prompts,        \* select_from_input: number of input() calls made
    dir_,           \* setup_logging: the argument _dir
    sys_stdout,     \* the stream sys.stdout refers to
    sys_stderr,     \* the stream sys.stderr refers to
    file_content,   \* setup_logging: the log file: "none", "open", "closed"
    setup_data,     \* the tuple setup_logging returned, NoValue before
    writes,         \* how many writes each stream has received
    seconds_arg,    \* _retry_pause: seconds as passed
    seconds,        \* _retry_pause: seconds, the parameter as the body reassigns it
    beep,           \* _retry_pause: beep
    loop_i,         \* _retry_pause: i, the loop variable of the countdown
    sleeps,         \* _retry_pause: time.sleep(1) calls made by the countdown
    beeps,          \* _retry_pause: _beep_boop() calls made
    calls,          \* concurrent calls: the frame of every thread's call
    shared,         \* concurrent calls: the list object all of them were passed
    shared_orig     \* concurrent calls: that list as it was when they started

\* The state of the other functions of the package (network, console, files).
fetchVars == <<base_url, params, mode, repeat_on_fail, response, requests, pauses>>
concVars == <<calls, shared, shared_orig>>
selectVars == <<select_dict, choice, entered, prompts>>
loggingVars == <<dir_, sys_stdout, sys_stderr, file_content, setup_data, writes>>
pauseVars == <<seconds_arg, seconds, beep, loop_i, sleeps, beeps>>
ioVars == <<fetchVars, concVars, selectVars, loggingVars, pauseVars>>

\* The variables of one call of a sorting function.
sortVars == <<json_input, stop, data, keys, reverse, sortedRaises,
              unique_values, round, prev, ret_obj>>

\* The frame of the call under way: function, position, report, outcome.
frameVars == <<fn, pc, log, ret, exitcode>>

vars == <<fn, json_input, stop, data, keys, reverse, sortedRaises, pc,
          unique_values, log, ret, exitcode, round, prev, ret_obj, ioVars>>

-----------------------------------------------------------------------------
(* Bounds of the explored inputs.                                          *)

MaxLen == 3         \* longest json_input list
MaxRecords == 2     \* longest data list
MaxKeys == 2        \* longest *keys tuple

-----------------------------------------------------------------------------
(* Python values.  Every scalar is a record [t, n, s]: t the type name,    *)
(* n the numeric payload, s the text payload.  A float holds its value in  *)
(* halves (n = 5 is 2.5); int and bool hold the value itself.              *)

PyStr(s)   == [t |-> "str", n |-> 0, s |-> s]
PyInt(n)   == [t |-> "int", n |-> n, s |-> ""]
PyBool(b)  == [t |-> "bool", n |-> IF b THEN 1 ELSE 0, s |-> ""]
PyFloat(h) == [t |-> "float", n |-> h, s |-> ""]
PyNone     == [t |-> "NoneType", n |-> 0, s |-> ""]
PyList(xs) == [t |-> "list", items |-> xs]
PyTuple(xs) == [t |-> "tuple", items |-> xs]
PyDict(f)  == [t |-> "dict", f |-> f]
NoValue    == [t |-> "NoValue"]

\* Code points of the characters of every text value the model uses.
CodePoints ==
    [s \in {"", "1", "B", "a", "ab", "b", "name", "age", "not a list"} |->
        CASE s = "" -> <<>>
          [] s = "1" -> <<49>>
          [] s = "B" -> <<66>>
          [] s = "a" -> <<97>>
          [] s = "ab" -> <<97, 98>>
          [] s = "b" -> <<98>>
          [] s = "name" -> <<110, 97, 109, 101>>
          [] s = "age" -> <<97, 103, 101>>
          [] s = "not a list" -> <<110, 111, 116, 32, 97, 32, 108, 105, 115, 116>>]

\* Python's str < str: lexicographic on code points, a proper prefix first.
RECURSIVE LexLess(_, _)
LexLess(a, b) ==
    IF b = <<>> THEN FALSE
    ELSE IF a = <<>> THEN TRUE
    ELSE IF Head(a) # Head(b) THEN Head(a) < Head(b)
    ELSE LexLess(Tail(a), Tail(b))

\* bool is a subclass of int; isinstance(x, cls) for a tuple of classes.
Subclasses(cls) == IF cls = "int" THEN {"int", "bool"} ELSE {cls}
isinstance(x, classes) == \E c \in classes : x.t \in Subclasses(c)

IsNumber(x) == x.t \in {"int", "bool", "float"}
Halves(x) == IF x.t = "float" THEN x.n ELSE 2 * x.n

\* Python's ==.  Numbers compare by value across int, bool and float; a str
\* never equals a number; containers compare element by element.
RECURSIVE PyEq(_, _)
PyEq(a, b) ==
    IF IsNumber(a) /\ IsNumber(b) THEN Halves(a) = Halves(b)
    ELSE IF a.t # b.t THEN FALSE
    ELSE IF a.t = "str" THEN a.s = b.s
    ELSE IF a.t = "NoneType" THEN TRUE
    ELSE IF a.t \in {"list", "tuple"} THEN
        /\ Len(a.items) = Len(b.items)
        /\ \A i \in 1..Len(a.items) : PyEq(a.items[i], b.items[i])
    ELSE IF a.t = "dict" THEN
        /\ DOMAIN a.f = DOMAIN b.f
        /\ \A k \in DOMAIN a.f : PyEq(a.f[k], b.f[k])
    ELSE FALSE

\* Python's <: "lt", "nlt", or "TypeError" when the operands do not order.
\* A tuple compares by its first unequal item; equal prefixes fall back to
\* the lengths.
RECURSIVE PyLess(_, _)
PyLess(a, b) ==
    IF IsNumber(a) /\ IsNumber(b) THEN
        IF Halves(a) < Halves(b) THEN "lt" ELSE "nlt"
    ELSE IF a.t = "str" /\ b.t = "str" THEN
        IF LexLess(CodePoints[a.s], CodePoints[b.s]) THEN "lt" ELSE "nlt"
    ELSE IF a.t = "tuple" /\ b.t = "tuple" THEN
        LET n == IF Len(a.items) < Len(b.items) THEN Len(a.items) ELSE Len(b.items)
            diff == {i \in 1..n : ~PyEq(a.items[i], b.items[i])}
        IN  IF diff = {} THEN
                IF Len(a.items) < Len(b.items) THEN "lt" ELSE "nlt"
            ELSE LET i == CHOOSE j \in diff : \A m \in diff : j <= m
                 IN  PyLess(a.items[i], b.items[i])
    ELSE "TypeError"

-----------------------------------------------------------------------------
(* sorted(iterable, key=..., reverse=...).  The argument is a sequence of  *)
(* [key, item] pairs, the key already computed.  The sort is stable and    *)
(* uses only <; reverse=True reverses the list, sorts and reverses again,  *)
(* which keeps equal items in their original order.  The result is         *)
(* [exc |-> "none", items |-> ...] or [exc |-> "TypeError", items |-> <<>>]*)

Reversed(xs) == [i \in 1..Len(xs) |-> xs[Len(xs) + 1 - i]]

\* Variant: the comparison is taken the wrong way round (descending order).
RECURSIVE InsertSortedDescending(_, _)
InsertSortedDescending(pre, x) ==
    IF pre.exc # "none" THEN pre
    ELSE IF pre.items = <<>> THEN [exc |-> "none", items |-> <<x>>]
    ELSE LET last == pre.items[Len(pre.items)]
             c == PyLess(last.key, x.key)
         IN  IF c = "TypeError" THEN [exc |-> "TypeError", items |-> <<>>]
             ELSE IF c = "lt" THEN
                 LET r == InsertSortedDescending(
                            [exc |-> "none",
                             items |-> SubSeq(pre.items, 1, Len(pre.items) - 1)],
                            x)
                 IN  IF r.exc # "none" THEN r
                     ELSE [exc |-> "none", items |-> Append(r.items, last)]
             ELSE [exc |-> "none", items |-> Append(pre.items, x)]

\* Variant: the items are kept in the order they arrive in (no sorting).
InsertUnsorted(pre, x) ==
    IF pre.exc # "none" THEN pre
    ELSE [exc |-> "none", items |-> Append(pre.items, x)]

\* Variant: an item whose key ties with the last one is dropped.
RECURSIVE InsertSortedDropTies(_, _)
InsertSortedDropTies(pre, x) ==
    IF pre.exc # "none" THEN pre
    ELSE IF pre.items = <<>> THEN [exc |-> "none", items |-> <<x>>]
    ELSE LET last == pre.items[Len(pre.items)]
             c == PyLess(x.key, last.key)
         IN  IF c = "TypeError" THEN [exc |-> "TypeError", items |-> <<>>]
             ELSE IF c = "lt" THEN
                 LET r == InsertSortedDropTies(
                            [exc |-> "none",
                             items |-> SubSeq(pre.items, 1, Len(pre.items) - 1)],
                            x)
                 IN  IF r.exc # "none" THEN r
                     ELSE [exc |-> "none", items |-> Append(r.items, last)]
             ELSE IF PyLess(last.key, x.key) = "lt"
             THEN [exc |-> "none", items |-> Append(pre.items, x)]
             ELSE pre

\* Variant: an item is moved in front of the items its key ties with.
RECURSIVE InsertSortedBeforeTies(_, _)
InsertSortedBeforeTies(pre, x) ==
    IF pre.exc # "none" THEN pre
    ELSE IF pre.items = <<>> THEN [exc |-> "none", items |-> <<x>>]
    ELSE LET last == pre.items[Len(pre.items)]
             c == PyLess(last.key, x.key)
         IN  IF c = "TypeError" THEN [exc |-> "TypeError", items |-> <<>>]
             ELSE IF c = "nlt" THEN
                 LET r == InsertSortedBeforeTies(
                            [exc |-> "none",
                             items |-> SubSeq(pre.items, 1, Len(pre.items) - 1)],
                            x)
                 IN  IF r.exc # "none" THEN r
                     ELSE [exc |-> "none", items |-> Append(r.items, last)]
             ELSE [exc |-> "none", items |-> Append(pre.items, x)]

RECURSIVE InsertSorted(_, _)
InsertSorted(pre, x) ==
    IF pre.exc # "none" THEN pre
    ELSE IF pre.items = <<>> THEN [exc |-> "none", items |-> <<x>>]
    ELSE LET last == pre.items[Len(pre.items)]
             c == PyLess(x.key, last.key)
         IN  IF c = "TypeError" THEN [exc |-> "TypeError", items |-> <<>>]
             ELSE IF c = "lt" THEN
                 LET r == InsertSorted(
                            [exc |-> "none",
                             items |-> SubSeq(pre.items, 1, Len(pre.items) - 1)],
                            x)
                 IN  IF r.exc # "none" THEN r
                     ELSE [exc |-> "none", items |-> Append(r.items, last)]
             ELSE [exc |-> "none", items |-> Append(pre.items, x)]

RECURSIVE StableSort(_)
StableSort(xs) ==
    IF xs = <<>> THEN [exc |-> "none", items |-> <<>>]
    ELSE InsertSorted(StableSort(SubSeq(xs, 1, Len(xs) - 1)), xs[Len(xs)])

\* Variant: reverse=True reverses the ascending result, which also turns
\* the order of equal items round.
sortedReverseAfter(pairs, rev) ==
    LET r == StableSort(pairs)
        out == IF rev THEN Reversed(r.items) ELSE r.items
    IN  [exc |-> r.exc, items |-> [i \in 1..Len(out) |-> out[i].item]]

\* Variant: the reverse flag is ignored.
sortedIgnoresReverse(pairs, rev) ==
    LET r == StableSort(pairs)
    IN  [exc |-> r.exc, items |-> [i \in 1..Len(r.items) |-> r.items[i].item]]

\* Variant: reverse=True reverses the list before sorting and not after.
sortedReverseOnce(pairs, rev) ==
    LET r == StableSort(IF rev THEN Reversed(pairs) ELSE pairs)
    IN  [exc |-> r.exc, items |-> [i \in 1..Len(r.items) |-> r.items[i].item]]

sorted(pairs, rev) ==
    LET r == StableSort(IF rev THEN Reversed(pairs) ELSE pairs)
        out == IF rev THEN Reversed(r.items) ELSE r.items
    IN  [exc |-> r.exc, items |-> [i \in 1..Len(out) |-> out[i].item]]

-----------------------------------------------------------------------------
(* console.error_msg and utility.validate_input.                           *)

\* error_msg prints the message under its location, then raises
\* SystemExit(1) when stop is set.
\* Variant: the stop flag is ignored and every report raises.
error_msgAlwaysStops(l, location, stp) ==
    [log |-> Append(l, [location |-> location, stop |-> stp]),
     exc |-> "SystemExit",
     code |-> 1]

\* Variant: the report never raises.
error_msgNeverStops(l, location, stp) ==
    [log |-> Append(l, [location |-> location, stop |-> stp]),
     exc |-> "none",
     code |-> -1]

\* Variant: nothing is printed.
error_msgSilent(l, location, stp) ==
    [log |-> l,
     exc |-> IF stp THEN "SystemExit" ELSE "none",
     code |-> IF stp THEN 1 ELSE -1]

error_msg(l, location, stp) ==
    [log |-> Append(l, [location |-> location, stop |-> stp]),
     exc |-> IF stp THEN "SystemExit" ELSE "none",
     code |-> IF stp THEN 1 ELSE -1]

\* validate_input reports a value of the wrong type; it returns False unless
\* the report raised.
validate_input(l, value, expected_type, stp) ==
    IF ~isinstance(value, expected_type)
    THEN LET e == error_msg(l, "Newt.utility.validate_input", stp)
         IN  [log |-> e.log, exc |-> e.exc, code |-> e.code, out |-> FALSE]
    ELSE [log |-> l, exc |-> "none", code |-> -1, out |-> TRUE]

\* `except Exception` catches the subclasses of Exception; SystemExit derives
\* from BaseException only.
\* Variant: a bare `except:` which also catches SystemExit.
ExceptBaseException(exc) == exc \in {"RuntimeError", "TypeError", "SystemExit"}

\* Variant: `except TypeError`, which lets other exceptions through.
ExceptTypeError(exc) == exc = "TypeError"

\* Variant: the handler catches nothing.
ExceptNothing(exc) == FALSE

ExceptException(exc) == exc \in {"RuntimeError", "TypeError"}

-----------------------------------------------------------------------------
(* Inputs.                                                                 *)

\* Elements a json_input list is drawn from: text, integers, and the values
\* of other types the validation is about.
ListVals ==
    {PyStr("1"), PyStr("B"), PyStr("a"), PyStr("ab"),
     PyInt(1), PyInt(2), PyBool(TRUE), PyFloat(5), PyNone}

SeqsUpTo(S, n) == UNION {[1..m -> S] : m \in 0..n}

\* First arguments of sorting_list: lists, and values that are not a list.
ListInputs ==
    {PyList(xs) : xs \in SeqsUpTo(ListVals, MaxLen)}
        \cup {PyStr("not a list"), PyInt(1), PyNone}

-----------------------------------------------------------------------------
(* Python's set(iterable): one representative, the first met, of every     *)
(* class of equal elements.  Its iteration order is any order.             *)

\* Text form of a scalar, str(x).
Digits == <<"1", "2", "3", "4", "5", "6", "7", "8", "9">>
TextOf(x) ==
    IF x.t = "str" THEN x.s
    ELSE IF x.t = "int" /\ x.n \in 1..9 THEN Digits[x.n]
    ELSE IF x.t = "bool" THEN (IF x.n = 1 THEN "True" ELSE "False")
    ELSE x.t

\* Variant: duplicates are found by text form, so "1" and 1 collapse.
PySetByText(xs) ==
    {xs[i] : i \in {j \in 1..Len(xs) :
                        \A m \in 1..(j - 1) : TextOf(xs[m]) # TextOf(xs[j])}}

PySet(xs) ==
    {xs[i] : i \in {j \in 1..Len(xs) : \A m \in 1..(j - 1) : ~PyEq(xs[m], xs[j])}}

IterationOrders(S) ==
    {p \in [1..Cardinality(S) -> S] : \A i, j \in 1..Cardinality(S) : p[i] = p[j] => i = j}

\* sorted(list) without key: every item is its own key.
OwnKey(xs) == [i \in 1..Len(xs) |-> [key |-> xs[i], item |-> xs[i]]]

IsStr(x) == isinstance(x, {"str"})
IsInt(x) == isinstance(x, {"int"})

-----------------------------------------------------------------------------
(* sorting_list(json_input, stop=True)                                     *)

Halt(e) ==
    /\ pc' = "halted"
    /\ log' = e.log
    /\ exitcode' = e.code
    /\ ret' = NoValue
    /\ ret_obj' = "none"

\* return <expression>: the value is an object made by the call.
Return(l, value) ==
    /\ pc' = "returned"
    /\ log' = l
    /\ ret' = value
    /\ exitcode' = -1
    /\ ret_obj' = "new"

\* return data: the value is the list object the caller passed.
ReturnData(l) ==
    /\ pc' = "returned"
    /\ log' = l
    /\ ret' = data
    /\ exitcode' = -1
    /\ ret_obj' = "data"

\* An exception other than SystemExit leaves the call uncaught.
Propagate ==
    /\ pc' = "raised"
    /\ UNCHANGED <<log, ret, exitcode, ret_obj>>

\* if not validate_input(json_input, list, stop=stop): return []
SL_ValidateInput ==
    /\ fn = "sorting_list" /\ pc = "sl_validate"
    /\ LET v == validate_input(log, json_input, {"list"}, stop)
       IN  IF v.exc # "none" THEN Halt(v)
           ELSE IF ~v.out THEN Return(v.log, PyList(<<>>))
           ELSE /\ pc' = "sl_elements"
                /\ UNCHANGED <<log, ret, exitcode, ret_obj>>
    /\ UNCHANGED ioVars
    /\ UNCHANGED <<fn, json_input, stop, data, keys, reverse, sortedRaises,
                   unique_values, round, prev>>

\* try: if not all(isinstance(x, (str, int)) for x in json_input): ...
\* The SystemExit of error_msg is raised inside the try block.
SL_CheckElements ==
    /\ fn = "sorting_list" /\ pc = "sl_elements"
    /\ IF \A i \in 1..Len(json_input.items) :
              isinstance(json_input.items[i], {"str", "int"})
       THEN /\ pc' = "sl_set"
            /\ UNCHANGED <<log, ret, exitcode, ret_obj>>
       ELSE LET e == error_msg(log, "Newt.utility.sorting_list", stop)
            IN  IF e.exc = "none" THEN Return(e.log, PyList(<<>>))
                ELSE IF ExceptException(e.exc)
                THEN /\ pc' = "sl_except"
                     /\ log' = e.log
                     /\ UNCHANGED <<ret, exitcode, ret_obj>>
                ELSE Halt(e)
    /\ UNCHANGED ioVars
    /\ UNCHANGED <<fn, json_input, stop, data, keys, reverse, sortedRaises,
                   unique_values, round, prev>>

\* unique_values = set(json_input)
SL_RemoveDuplicates ==
    /\ fn = "sorting_list" /\ pc = "sl_set"
    /\ unique_values' \in IterationOrders(PySet(json_input.items))
    /\ pc' = "sl_sort"
    /\ UNCHANGED ioVars
    /\ UNCHANGED <<fn, json_input, stop, data, keys, reverse, sortedRaises,
                   log, ret, exitcode, ret_obj, round, prev>>

\* str_values = sorted(...); int_values = sorted(...);
\* return str_values + int_values
SL_Sort ==
    /\ fn = "sorting_list" /\ pc = "sl_sort"
    /\ LET str_values == sorted(OwnKey(SelectSeq(unique_values, IsStr)), FALSE)
           int_values == sorted(OwnKey(SelectSeq(unique_values, IsInt)), FALSE)
           exc == IF sortedRaises THEN "RuntimeError"
                  ELSE IF str_values.exc # "none" THEN str_values.exc
                  ELSE int_values.exc
       IN  IF exc = "none"
           THEN Return(log, PyList(str_values.items \o int_values.items))
           ELSE IF ExceptException(exc)
           THEN /\ pc' = "sl_except"
                /\ UNCHANGED <<log, ret, exitcode, ret_obj>>
           ELSE Propagate
    /\ UNCHANGED ioVars
    /\ UNCHANGED <<fn, json_input, stop, data, keys, reverse, sortedRaises,
                   unique_values, round, prev>>

\* except Exception as e: error_msg(..., stop=stop); return []
SL_Except ==
    /\ fn = "sorting_list" /\ pc = "sl_except"
    /\ LET e == error_msg(log, "Newt.utility.sorting_list", stop)
       IN  IF e.exc = "none" THEN Return(e.log, PyList(<<>>)) ELSE Halt(e)
    /\ UNCHANGED ioVars
    /\ UNCHANGED <<fn, json_input, stop, data, keys, reverse, sortedRaises,
                   unique_values, round, prev>>

\* The caller passes the returned list to sorting_list again.
SL_CallOnResult ==
    /\ fn = "sorting_list" /\ pc = "returned" /\ round = 1
    /\ prev' = [json_input |-> json_input, ret |-> ret, log |-> log]
    /\ json_input' = ret
    /\ round' = 2
    /\ pc' = "sl_validate"
    /\ log' = <<>>
    /\ ret' = NoValue
    /\ ret_obj' = "none"
    /\ unique_values' = <<>>
    /\ UNCHANGED ioVars
    /\ UNCHANGED <<fn, stop, data, keys, reverse, sortedRaises, exitcode>>

\* The other functions of the package are not under call.
NoResponse == [kind |-> "none", status |-> 0, text |-> ""]

IdleFetch ==
    /\ base_url = NoValue
    /\ params = PyNone
    /\ mode = "auto"
    /\ repeat_on_fail = TRUE
    /\ response = NoResponse
    /\ requests = 0
    /\ pauses = 0

IdleConc ==
    /\ calls = <<>>
    /\ shared = NoValue
    /\ shared_orig = NoValue

IdleSelect ==
    /\ select_dict = NoValue
    /\ choice = ""
    /\ entered = ""
    /\ prompts = 0

\* The streams writes may end in: the two streams the process started
\* with, the log file while open, and the log file after it was closed
\* (such a write raises ValueError).
Sinks == {"stdout0", "stderr0", "file", "closed_file"}

IdleLogging ==
    /\ dir_ = NoValue
    /\ sys_stdout = "stdout0"
    /\ sys_stderr = "stderr0"
    /\ file_content = "none"
    /\ setup_data = NoValue
    /\ writes = [k \in Sinks |-> 0]

IdlePause ==
    /\ seconds_arg = NoValue
    /\ seconds = NoValue
    /\ beep = FALSE
    /\ loop_i = 0
    /\ sleeps = 0
    /\ beeps = 0

IdleIO == IdleFetch /\ IdleConc /\ IdleSelect /\ IdleLogging /\ IdlePause

NoCall == [json_input |-> NoValue, ret |-> NoValue, log |-> <<>>]

InitList ==
    /\ fn = "sorting_list"
    /\ json_input \in ListInputs
    /\ stop \in BOOLEAN
    /\ sortedRaises \in BOOLEAN
    /\ data = PyList(<<>>)
    /\ keys = <<>>
    /\ reverse = FALSE
    /\ pc = "sl_validate"
    /\ unique_values = <<>>
    /\ log = <<>>
    /\ ret = NoValue
    /\ exitcode = -1
    /\ round = 1
    /\ prev = NoCall
    /\ ret_obj = "none"
    /\ IdleIO

NextList ==
    \/ SL_ValidateInput
    \/ SL_CheckElements
    \/ SL_RemoveDuplicates
    \/ SL_Sort
    \/ SL_Except
    \/ SL_CallOnResult

SpecList == InitList /\ [][NextList]_vars

-----------------------------------------------------------------------------
(* sorting_dict_by_keys(data, *keys, reverse=False)                        *)

Fields == {"name", "age"}

\* Values a field may hold: text under "name"; integers, None and a text
\* (which does not order against an integer) under "age".
FieldVals(k) ==
    IF k = "name" THEN {PyStr("a"), PyStr("b")}
    ELSE {PyInt(1), PyInt(2), PyNone, PyStr("a")}

\* Dicts with any subset of the fields present.
Records ==
    UNION {{f \in [D -> {PyStr("a"), PyStr("b"), PyInt(1), PyInt(2), PyNone}] :
                \A k \in D : f[k] \in FieldVals(k)} : D \in SUBSET Fields}

\* First arguments of sorting_dict_by_keys: lists of dicts, lists with an
\* element that is not a dict, and a value that is not a list.
DataInputs ==
    {PyList(xs) : xs \in SeqsUpTo({PyDict(f) : f \in Records} \cup {PyInt(1)},
                                  MaxRecords)}
        \cup {PyStr("not a list")}

\* *keys: field names, and a value that is not a str.
KeyInputs == SeqsUpTo({PyStr("name"), PyStr("age"), PyInt(123)}, MaxKeys)

\* d.get(k): the value under k, None when k is absent.
dict_get(d, k) == IF k.s \in DOMAIN d.f THEN d.f[k.s] ELSE PyNone

\* Variant: the flag says that the value is present (is not None).
sort_keyPresentFlag(d, ks) ==
    PyTuple([i \in 1..Len(ks) |->
                PyTuple(<<PyBool(dict_get(d, ks[i]).t # "NoneType"),
                          dict_get(d, ks[i])>>)])

\* Variant: the keys are taken in the opposite order, the last one first.
sort_keyLastKeyFirst(d, ks) ==
    PyTuple([i \in 1..Len(ks) |->
                PyTuple(<<PyBool(dict_get(d, ks[Len(ks) + 1 - i]).t = "NoneType"),
                          dict_get(d, ks[Len(ks) + 1 - i])>>)])

\* sort_key(d): tuple((d.get(k) is None, d.get(k)) for k in keys)
sort_key(d, ks) ==
    PyTuple([i \in 1..Len(ks) |->
                PyTuple(<<PyBool(dict_get(d, ks[i]).t = "NoneType"),
                          dict_get(d, ks[i])>>)])

\* sorted(data, key=sort_key, ...) computes the key of every item first.
WithKey(xs, ks) == [i \in 1..Len(xs) |-> [key |-> sort_key(xs[i], ks), item |-> xs[i]]]

\* if not validate_input(data, list): return []
SD_ValidateInput ==
    /\ fn = "sorting_dict_by_keys" /\ pc = "sd_validate"
    /\ LET v == validate_input(log, data, {"list"}, TRUE)
       IN  IF v.exc # "none" THEN Halt(v)
           ELSE IF ~v.out THEN Return(v.log, PyList(<<>>))
           ELSE /\ pc' = "sd_dicts"
                /\ UNCHANGED <<log, ret, exitcode, ret_obj>>
    /\ UNCHANGED ioVars
    /\ UNCHANGED <<fn, json_input, stop, data, keys, reverse, sortedRaises,
                   unique_values, round, prev>>

\* if not all(isinstance(d, dict) for d in data): error_msg(...); return []
SD_CheckDicts ==
    /\ fn = "sorting_dict_by_keys" /\ pc = "sd_dicts"
    /\ IF \A i \in 1..Len(data.items) : isinstance(data.items[i], {"dict"})
       THEN /\ pc' = "sd_keys"
            /\ UNCHANGED <<log, ret, exitcode, ret_obj>>
       ELSE LET e == error_msg(log, "Newt.utility.sorting_dict_by_keys", TRUE)
            IN  IF e.exc = "none" THEN Return(e.log, PyList(<<>>)) ELSE Halt(e)
    /\ UNCHANGED ioVars
    /\ UNCHANGED <<fn, json_input, stop, data, keys, reverse, sortedRaises,
                   unique_values, round, prev>>

\* if not all(isinstance(k, str) for k in keys): error_msg(...); return data
SD_CheckKeys ==
    /\ fn = "sorting_dict_by_keys" /\ pc = "sd_keys"
    /\ IF \A i \in 1..Len(keys) : isinstance(keys[i], {"str"})
       THEN /\ pc' = "sd_sort"
            /\ UNCHANGED <<log, ret, exitcode, ret_obj>>
       ELSE LET e == error_msg(log, "Newt.utility.sorting_dict_by_keys", TRUE)
            IN  IF e.exc = "none" THEN ReturnData(e.log) ELSE Halt(e)
    /\ UNCHANGED ioVars
    /\ UNCHANGED <<fn, json_input, stop, data, keys, reverse, sortedRaises,
                   unique_values, round, prev>>

\* Variant: the list is sorted in place (data.sort(...)) and returned.
SD_SortInPlace ==
    /\ fn = "sorting_dict_by_keys" /\ pc = "sd_sort"
    /\ LET r == sorted(WithKey(data.items, keys), reverse)
           exc == IF sortedRaises THEN "RuntimeError" ELSE r.exc
       IN  IF exc = "none"
           THEN /\ data' = PyList(r.items)
                /\ pc' = "returned"
                /\ ret' = PyList(r.items)
                /\ ret_obj' = "data"
                /\ UNCHANGED <<log, exitcode>>
           ELSE /\ pc' = "sd_except"
                /\ UNCHANGED <<data, log, ret, exitcode, ret_obj>>
    /\ UNCHANGED ioVars
    /\ UNCHANGED <<fn, json_input, stop, keys, reverse, sortedRaises,
                   unique_values, round, prev>>

\* try: return sorted(data, key=sort_key, reverse=reverse)
SD_Sort ==
    /\ fn = "sorting_dict_by_keys" /\ pc = "sd_sort"
    /\ LET r == sorted(WithKey(data.items, keys), reverse)
           exc == IF sortedRaises THEN "RuntimeError" ELSE r.exc
       IN  IF exc = "none" THEN Return(log, PyList(r.items))
           ELSE IF ExceptException(exc)
           THEN /\ pc' = "sd_except"
                /\ UNCHANGED <<log, ret, exitcode, ret_obj>>
           ELSE Propagate
    /\ UNCHANGED ioVars
    /\ UNCHANGED <<fn, json_input, stop, data, keys, reverse, sortedRaises,
                   unique_values, round, prev>>

\* Variant: the handler returns an empty list.
SD_ExceptReturnsEmpty ==
    /\ fn = "sorting_dict_by_keys" /\ pc = "sd_except"
    /\ LET e == error_msg(log, "Newt.utility.sorting_dict_by_keys", FALSE)
       IN  IF e.exc = "none" THEN Return(e.log, PyList(<<>>)) ELSE Halt(e)
    /\ UNCHANGED ioVars
    /\ UNCHANGED <<fn, json_input, stop, data, keys, reverse, sortedRaises,
                   unique_values, round, prev>>

\* except Exception as e: error_msg(..., stop=False); return data
SD_Except ==
    /\ fn = "sorting_dict_by_keys" /\ pc = "sd_except"
    /\ LET e == error_msg(log, "Newt.utility.sorting_dict_by_keys", FALSE)
       IN  IF e.exc = "none" THEN ReturnData(e.log) ELSE Halt(e)
    /\ UNCHANGED ioVars
    /\ UNCHANGED <<fn, json_input, stop, data, keys, reverse, sortedRaises,
                   unique_values, round, prev>>

InitDict ==
    /\ fn = "sorting_dict_by_keys"
    /\ data \in DataInputs
    /\ keys \in KeyInputs
    /\ reverse \in BOOLEAN
    /\ sortedRaises \in BOOLEAN
    /\ json_input = PyList(<<>>)
    /\ stop = TRUE
    /\ pc = "sd_validate"
    /\ unique_values = <<>>
    /\ log = <<>>
    /\ ret = NoValue
    /\ exitcode = -1
    /\ round = 1
    /\ prev = NoCall
    /\ ret_obj = "none"
    /\ IdleIO

\* The caller repeats a returned reverse=False call with reverse=True on the
\* same data and keys.
SD_CallReversed ==
    /\ fn = "sorting_dict_by_keys" /\ pc = "returned" /\ round = 1 /\ ~reverse
    /\ prev' = [json_input |-> data, ret |-> ret, log |-> log]
    /\ reverse' = TRUE
    /\ round' = 2
    /\ pc' = "sd_validate"
    /\ log' = <<>>
    /\ ret' = NoValue
    /\ ret_obj' = "none"
    /\ UNCHANGED ioVars
    /\ UNCHANGED <<fn, json_input, stop, data, keys, sortedRaises,
                   unique_values, exitcode>>

NextDict ==
    \/ SD_ValidateInput
    \/ SD_CheckDicts
    \/ SD_CheckKeys
    \/ SD_Sort
    \/ SD_Except
    \/ SD_CallReversed

SpecDict == InitDict /\ [][NextDict]_vars

\* A call that passes the keyword stop=...: the signature
\* (data, *keys, reverse=False) has no such parameter, so binding the
\* arguments raises TypeError before the body runs.
SD_CallWithStop ==
    /\ fn = "sorting_dict_by_keys" /\ pc = "sd_call_stop"
    /\ Propagate
    /\ UNCHANGED ioVars
    /\ UNCHANGED <<fn, json_input, stop, data, keys, reverse, sortedRaises,
                   unique_values, round, prev>>

InitDictStop ==
    /\ fn = "sorting_dict_by_keys"
    /\ data \in DataInputs
    /\ keys \in KeyInputs
    /\ reverse \in BOOLEAN
    /\ sortedRaises \in BOOLEAN
    /\ json_input = PyList(<<>>)
    /\ stop \in BOOLEAN
    /\ pc = "sd_call_stop"
    /\ unique_values = <<>>
    /\ log = <<>>
    /\ ret = NoValue
    /\ exitcode = -1
    /\ round = 1
    /\ prev = NoCall
    /\ ret_obj = "none"
    /\ IdleIO

NextDictStop == SD_CallWithStop

SpecDictStop == InitDictStop /\ [][NextDictStop]_vars

-----------------------------------------------------------------------------
(* Properties of sorting_list.                                             *)

Terminal == pc \in {"returned", "halted", "raised"}
Range(xs) == {xs[i] : i \in 1..Len(xs)}

\* A list whose elements are text or integers proper.
StrOrIntList(x) ==
    /\ x.t = "list"
    /\ \A i \in 1..Len(x.items) : x.items[i].t \in {"str", "int"}

\* An argument the validation of sorting_list lets through.
PassesValidation(x) ==
    /\ x.t = "list"
    /\ \A i \in 1..Len(x.items) : isinstance(x.items[i], {"str", "int"})

FirstCallEnded == fn = "sorting_list" /\ round = 1 /\ Terminal

\* C1: for a list of str and int elements, the result of sorting_list has
\* no value twice and holds exactly the distinct elements of the input; a
\* str and an int are never merged.
C1_DistinctElements ==
    (FirstCallEnded /\ StrOrIntList(json_input) /\ ~sortedRaises) =>
        /\ pc = "returned"
        /\ ret.t = "list"
        /\ \A i, j \in 1..Len(ret.items) : ret.items[i] = ret.items[j] => i = j
        /\ Range(ret.items) = Range(json_input.items)

C1_Witness ==
    /\ FirstCallEnded /\ pc = "returned"
    /\ StrOrIntList(json_input)
    /\ Len(json_input.items) = 3
    /\ PyStr("1") \in Range(json_input.items)
    /\ PyInt(1) \in Range(json_input.items)
    /\ Cardinality(Range(json_input.items)) = 2
    /\ Len(ret.items) = 2

\* a precedes b lexicographically: they agree up to some position where a
\* ends and b goes on, or where a has the smaller code point.
LexBefore(a, b) ==
    \E k \in 1..(Len(b)) :
        /\ k <= Len(a) + 1
        /\ \A m \in 1..(k - 1) : a[m] = b[m]
        /\ (k = Len(a) + 1 \/ a[k] < b[k])

\* C2: in the result for a valid input every str comes before every int,
\* the strs are strictly ascending lexicographically and the ints strictly
\* ascending numerically.
C2_StrThenIntAscending ==
    (FirstCallEnded /\ StrOrIntList(json_input) /\ ~sortedRaises) =>
        /\ pc = "returned"
        /\ \A i, j \in 1..Len(ret.items) :
             i < j =>
               LET a == ret.items[i]
                   b == ret.items[j]
               IN  /\ ~(a.t = "int" /\ b.t = "str")
                   /\ (a.t = "str" /\ b.t = "str") =>
                          LexBefore(CodePoints[a.s], CodePoints[b.s])
                   /\ (a.t = "int" /\ b.t = "int") => a.n < b.n

C2_Witness ==
    /\ FirstCallEnded /\ pc = "returned"
    /\ json_input = PyList(<<PyInt(2), PyStr("ab"), PyStr("B")>>)
    /\ ret = PyList(<<PyStr("B"), PyStr("ab"), PyInt(2)>>)

\* C3: sorting_list applied to its own result for a valid input returns that
\* result again and reports nothing.
C3_Idempotent ==
    (fn = "sorting_list" /\ round = 2 /\ Terminal
        /\ StrOrIntList(prev.json_input) /\ ~sortedRaises) =>
        /\ pc = "returned"
        /\ ret = prev.ret
        /\ log = <<>>

C3_Witness ==
    /\ fn = "sorting_list" /\ round = 2 /\ pc = "returned"
    /\ prev.json_input = PyList(<<PyInt(2), PyStr("a"), PyInt(1)>>)
    /\ ret = PyList(<<PyStr("a"), PyInt(1), PyInt(2)>>)

HasType(x, t) == x.t = "list" /\ \E i \in 1..Len(x.items) : x.items[i].t = t

\* C4: a list holding a boolean is rejected like one holding a float or
\* None: the call halts in default mode, returns the empty list after a
\* report with stop=False, and no returned list holds a boolean.
C4_BooleanRejected ==
    /\ (FirstCallEnded /\ HasType(json_input, "bool")) =>
          IF stop THEN pc = "halted" /\ exitcode = 1
          ELSE pc = "returned" /\ ret = PyList(<<>>) /\ log # <<>>
    /\ (fn = "sorting_list" /\ pc = "returned") => ~HasType(ret, "bool")

\* C5: with stop=False an argument that is not a list, or a list with an
\* element that is not an instance of str or int, is reported, the call does
\* not halt and returns the empty list, never the valid part of the input.
C5_NoStopReturnsEmpty ==
    /\ (fn = "sorting_list" /\ ~stop) => pc \notin {"halted", "raised"}
    /\ (FirstCallEnded /\ ~stop /\ ~PassesValidation(json_input)) =>
          /\ pc = "returned"
          /\ ret = PyList(<<>>)
          /\ Len(log) = 1
          /\ exitcode = -1

C5_Witness ==
    /\ FirstCallEnded /\ ~stop /\ pc = "returned"
    /\ HasType(json_input, "float") /\ HasType(json_input, "int")
    /\ ret = PyList(<<>>)
    /\ log = <<[location |-> "Newt.utility.sorting_list", stop |-> FALSE]>>

\* C6: in default mode a failed validation halts with SystemExit(1) after
\* exactly one report and without a return value; the SystemExit raised
\* inside the try block does not pass through the except clause.
C6_StopHalts ==
    (FirstCallEnded /\ stop /\ ~PassesValidation(json_input)) =>
        /\ pc = "halted"
        /\ exitcode = 1
        /\ ret = NoValue
        /\ Len(log) = 1
        /\ log[1].stop

C6_Witness ==
    /\ FirstCallEnded /\ stop /\ pc = "halted"
    /\ HasType(json_input, "float")
    /\ log = <<[location |-> "Newt.utility.sorting_list", stop |-> TRUE]>>

\* C7: when the sort step fails on an input that passed validation, the
\* failure is reported once, the call halts with SystemExit(1) under
\* stop=True and returns the empty list under stop=False; the exception
\* itself never leaves the call.
C7_SortFailureHandled ==
    /\ fn = "sorting_list" => pc # "raised"
    /\ (FirstCallEnded /\ sortedRaises /\ PassesValidation(json_input)) =>
          /\ log = <<[location |-> "Newt.utility.sorting_list", stop |-> stop]>>
          /\ IF stop THEN pc = "halted" /\ exitcode = 1 /\ ret = NoValue
             ELSE pc = "returned" /\ ret = PyList(<<>>)

C7_Witness ==
    /\ FirstCallEnded /\ sortedRaises /\ ~stop /\ pc = "returned"
    /\ json_input = PyList(<<PyInt(1), PyInt(2), PyStr("a")>>)
    /\ ret = PyList(<<>>)

-----------------------------------------------------------------------------
(* Properties of sorting_dict_by_keys.                                     *)

DictCallEnded == fn = "sorting_dict_by_keys" /\ Terminal

ListOfDicts(x) ==
    /\ x.t = "list"
    /\ \A i \in 1..Len(x.items) : x.items[i].t = "dict"

AllStrKeys == \A i \in 1..Len(keys) : keys[i].t = "str"

\* How often x occurs in xs.
Count(xs, x) == Cardinality({i \in 1..Len(xs) : xs[i] = x})

\* C8: for a list of dicts and str keys, a call that returns without a
\* report returns a permutation of the input, the records unchanged; an
\* empty input returns an empty list without a report.
C8_Permutation ==
    /\ (DictCallEnded /\ ListOfDicts(data) /\ AllStrKeys
            /\ pc = "returned" /\ log = <<>>) =>
          /\ ret.t = "list"
          /\ Len(ret.items) = Len(data.items)
          /\ \A i \in 1..Len(data.items) :
                Count(ret.items, data.items[i]) = Count(data.items, data.items[i])
    /\ (DictCallEnded /\ data = PyList(<<>>) /\ AllStrKeys /\ ~sortedRaises) =>
          /\ pc = "returned"
          /\ ret = PyList(<<>>)
          /\ log = <<>>

C8_Witness ==
    /\ DictCallEnded /\ pc = "returned" /\ log = <<>>
    /\ keys = <<PyStr("age")>>
    /\ ListOfDicts(data) /\ Len(data.items) = 2
    /\ data.items[1].f = [k \in Fields |-> IF k = "age" THEN PyInt(2) ELSE PyStr("a")]
    /\ data.items[2].f = [k \in Fields |-> IF k = "age" THEN PyInt(1) ELSE PyStr("b")]
    /\ ret = PyList(<<data.items[2], data.items[1]>>)

SingleField(x, k) ==
    /\ ListOfDicts(x)
    /\ \A i \in 1..Len(x.items) : DOMAIN x.items[i].f = {k}

\* C10: without keys, a list of dicts that all have the same single field
\* is returned sorted ascending by the value of that field.
C10_NoKeysSortsSingleField ==
    \A k \in Fields :
        (DictCallEnded /\ SingleField(data, k) /\ keys = <<>> /\ ~sortedRaises
            /\ \A i \in 1..Len(data.items) : data.items[i].f[k].t = "str") =>
            /\ pc = "returned"
            /\ Len(ret.items) = Len(data.items)
            /\ \A i, j \in 1..Len(ret.items) :
                  i < j => ~LexBefore(CodePoints[ret.items[j].f[k].s],
                                      CodePoints[ret.items[i].f[k].s])

-----------------------------------------------------------------------------
(* Ordering properties of sorting_dict_by_keys.                            *)

\* The call got a list of dicts and str keys and returned without a report:
\* ret is the result of the sort step.
SortedWithoutReport ==
    /\ DictCallEnded /\ pc = "returned" /\ log = <<>>
    /\ ListOfDicts(data) /\ AllStrKeys

\* Key k is absent from record d or holds None.
Missing(d, k) == k.s \notin DOMAIN d.f \/ d.f[k.s].t = "NoneType"

\* x orders before y: integers by value, text by code points.
ValBefore(x, y) ==
    \/ x.t = "int" /\ y.t = "int" /\ x.n < y.n
    \/ x.t = "str" /\ y.t = "str" /\ LexBefore(CodePoints[x.s], CodePoints[y.s])

\* Records a and b do not differ on key k: both miss it or hold the same value.
AgreeOn(a, b, k) ==
    \/ Missing(a, k) /\ Missing(b, k)
    \/ ~Missing(a, k) /\ ~Missing(b, k) /\ a.f[k.s] = b.f[k.s]

\* a comes before b on key k as the pair (missing-or-None, value).
PairBefore(a, b, k) ==
    \/ ~Missing(a, k) /\ Missing(b, k)
    \/ ~Missing(a, k) /\ ~Missing(b, k) /\ ValBefore(a.f[k.s], b.f[k.s])

AgreeOnFirst(a, b, m) == \A h \in 1..m : AgreeOn(a, b, keys[h])
TiedKeys(a, b) == AgreeOnFirst(a, b, Len(keys))

Perms(n) == {p \in [1..n -> 1..n] : \A i, j \in 1..n : p[i] = p[j] => i = j}

\* C11: records with equal composite keys keep their relative input order in
\* the output, for every key list and both values of reverse: the output is
\* the input moved by a rearrangement that never swaps two tied records.
C11_Stable ==
    SortedWithoutReport =>
        /\ Len(ret.items) = Len(data.items)
        /\ \E p \in Perms(Len(data.items)) :
              /\ \A i \in 1..Len(data.items) : ret.items[p[i]] = data.items[i]
              /\ \A i, j \in 1..Len(data.items) :
                    (i < j /\ TiedKeys(data.items[i], data.items[j])) => p[i] < p[j]

C11_Witness ==
    /\ SortedWithoutReport /\ reverse
    /\ keys = <<PyStr("age")>>
    /\ Len(data.items) = 2
    /\ data.items[1].f = [k \in Fields |-> IF k = "age" THEN PyInt(1) ELSE PyStr("b")]
    /\ data.items[2].f = [k \in Fields |-> IF k = "age" THEN PyInt(1) ELSE PyStr("a")]
    /\ ret = data

\* C12: with reverse=False, among records that agree on all higher-priority
\* keys, a record missing a key (absent or None alike) never precedes a
\* record that has a value for it; two records that both miss the only key,
\* one by absence and one by None, stay in input order.
C12_MissingLastForward ==
    (SortedWithoutReport /\ ~reverse) =>
        /\ \A m \in 1..Len(keys) : \A i, j \in 1..Len(ret.items) :
              (i < j /\ AgreeOnFirst(ret.items[i], ret.items[j], m - 1)) =>
                  ~(Missing(ret.items[i], keys[m]) /\ ~Missing(ret.items[j], keys[m]))
        /\ (Len(keys) = 1 /\ \A i \in 1..Len(data.items) : Missing(data.items[i], keys[1]))
              => ret = data

C12_Witness ==
    /\ SortedWithoutReport /\ ~reverse
    /\ keys = <<PyStr("age")>>
    /\ Len(data.items) = 2
    /\ data.items[1].f = [k \in {"age"} |-> PyNone]
    /\ data.items[2].f = [k \in {"age"} |-> PyInt(2)]
    /\ ret = PyList(<<data.items[2], data.items[1]>>)

C14_MissingLastAlways ==
    SortedWithoutReport =>
        \A m \in 1..Len(keys) : \A i, j \in 1..Len(ret.items) :
            (i < j /\ AgreeOnFirst(ret.items[i], ret.items[j], m - 1)) =>
                ~(Missing(ret.items[i], keys[m]) /\ ~Missing(ret.items[j], keys[m]))

\* C15: the order of two output records is decided by the first key on which
\* they differ, compared as the pair (missing-or-None, value): ascending
\* with reverse=False, descending with reverse=True.
C15_KeyPriority ==
    SortedWithoutReport =>
        \A m \in 1..Len(keys) : \A i, j \in 1..Len(ret.items) :
            (/\ i < j
             /\ AgreeOnFirst(ret.items[i], ret.items[j], m - 1)
             /\ ~AgreeOn(ret.items[i], ret.items[j], keys[m])) =>
                IF reverse THEN PairBefore(ret.items[j], ret.items[i], keys[m])
                ELSE PairBefore(ret.items[i], ret.items[j], keys[m])

C15_Witness ==
    /\ SortedWithoutReport /\ ~reverse
    /\ keys = <<PyStr("age"), PyStr("name")>>
    /\ Len(data.items) = 2
    /\ data.items[1].f = [k \in Fields |-> IF k = "age" THEN PyInt(1) ELSE PyStr("b")]
    /\ data.items[2].f = [k \in Fields |-> IF k = "age" THEN PyInt(1) ELSE PyStr("a")]
    /\ ret = PyList(<<data.items[2], data.items[1]>>)

-----------------------------------------------------------------------------
(* reverse=True against reverse=False, and the error paths of              *)
(* sorting_dict_by_keys.                                                   *)

\* The reverse=True call has returned its sort result after the
\* reverse=False call on the same data and keys returned its own.
BothSorted ==
    /\ SortedWithoutReport /\ round = 2
    /\ prev.log = <<>>

\* C16 as stated: the reverse=True result is always the reversal of the
\* reverse=False result.
C16_ReverseIsReversal ==
    BothSorted => ret.items = Reversed(prev.ret.items)

\* C16 amended: the reverse=True result is the reversal of the reverse=False
\* result when no two different records have equal composite keys.
C16_ReverseIsReversalNoTies ==
    (BothSorted /\ \A i, j \in 1..Len(data.items) :
                      TiedKeys(data.items[i], data.items[j])
                          => data.items[i] = data.items[j]) =>
        ret.items = Reversed(prev.ret.items)

C16_Witness ==
    /\ BothSorted
    /\ keys = <<PyStr("age"), PyStr("name")>>
    /\ Len(data.items) = 2
    /\ data.items[1].f = [k \in Fields |-> IF k = "age" THEN PyInt(1) ELSE PyStr("a")]
    /\ data.items[2].f = [k \in Fields |-> IF k = "age" THEN PyInt(1) ELSE PyStr("b")]
    /\ prev.ret = data
    /\ ret = PyList(<<data.items[2], data.items[1]>>)

\* The arguments pass the three checks of sorting_dict_by_keys.
DictArgsValid ==
    /\ data.t = "list"
    /\ \A i \in 1..Len(data.items) : isinstance(data.items[i], {"dict"})
    /\ \A i \in 1..Len(keys) : isinstance(keys[i], {"str"})

\* C17: a call without stop keyword halts with SystemExit(1), after one
\* report and without reaching the sort step or returning a list, when data
\* is not a list, holds an element that is not a dict, or a key is not a str.
C17_ValidationHalts ==
    /\ (fn = "sorting_dict_by_keys" /\ pc \in {"sd_sort", "sd_except"}) => DictArgsValid
    /\ (DictCallEnded /\ ~DictArgsValid) =>
          /\ pc = "halted"
          /\ exitcode = 1
          /\ ret = NoValue
          /\ Len(log) = 1
          /\ log[1].stop

C17_Witness ==
    /\ DictCallEnded /\ pc = "halted" /\ exitcode = 1
    /\ ListOfDicts(data) /\ Len(data.items) = 1
    /\ keys = <<PyInt(123)>>
    /\ log = <<[location |-> "Newt.utility.sorting_dict_by_keys", stop |-> TRUE]>>

\* C18: a call with stop=False reports every validation failure and returns
\* an empty list.
C18_StopFalseReturnsEmpty ==
    (DictCallEnded /\ ~stop /\ ~DictArgsValid) =>
        /\ pc = "returned"
        /\ ret = PyList(<<>>)
        /\ Len(log) >= 1

\* Two records hold values of different types under the first key.
IncomparableFirstKey ==
    /\ Len(keys) >= 1
    /\ \E i, j \in 1..Len(data.items) :
          /\ ~Missing(data.items[i], keys[1]) /\ ~Missing(data.items[j], keys[1])
          /\ data.items[i].f[keys[1].s].t # data.items[j].f[keys[1].s].t

C20_SortFailureHalts ==
    (DictCallEnded /\ DictArgsValid /\ sortedRaises) =>
        /\ pc = "halted"
        /\ exitcode = 1
        /\ ret = NoValue

-----------------------------------------------------------------------------
(* Both sorting operations: a call of either function.                     *)

InitSorting == InitList \/ InitDict

NextSorting == NextList \/ NextDict

SpecSorting == InitSorting /\ [][NextSorting]_vars

\* C21: no step of a call of sorting_list or sorting_dict_by_keys, on the
\* success path, on a fallback path or when halting, changes the list it
\* was given or a record in it; the arguments change only when the caller
\* makes the next call.
C21_InputNotMutated ==
    [][round' = round => (json_input' = json_input /\ data' = data)]_vars

\* A call sorted two records into another order and data is as it was passed.
C21_Witness ==
    /\ fn = "sorting_dict_by_keys" /\ pc = "returned" /\ log = <<>>
    /\ round = 1
    /\ ListOfDicts(data) /\ Len(data.items) = 2
    /\ keys = <<PyStr("age")>>
    /\ data.items[1].f = [k \in {"age"} |-> PyInt(2)]
    /\ data.items[2].f = [k \in {"age"} |-> PyInt(1)]
    /\ ret = PyList(<<data.items[2], data.items[1]>>)

\* xs is the complete sorted result of sorting_list for the list x: every
\* element of x has an equal in xs and the other way round, no two items of
\* xs are equal, every str precedes every int, and no later item orders
\* before an earlier one of its kind.
SortedListOf(xs, x) ==
    /\ PassesValidation(x)
    /\ \A i \in 1..Len(x.items) : \E j \in 1..Len(xs) : PyEq(x.items[i], xs[j])
    /\ \A j \in 1..Len(xs) : xs[j] \in Range(x.items)
    /\ \A i, j \in 1..Len(xs) :
          i < j =>
            /\ ~PyEq(xs[i], xs[j])
            /\ ~(IsInt(xs[i]) /\ IsStr(xs[j]))
            /\ (IsStr(xs[i]) <=> IsStr(xs[j])) => PyLess(xs[i], xs[j]) = "lt"

\* xs is a complete sorted result of sorting_dict_by_keys for the list x:
\* a permutation of x in which no item's key orders before the key of an
\* earlier item (after it, under reverse).
SortedRecordsOf(xs, x) ==
    /\ ListOfDicts(x) /\ AllStrKeys
    /\ Len(xs) = Len(x.items)
    /\ \A i \in 1..Len(xs) : Count(xs, xs[i]) = Count(x.items, xs[i])
    /\ \A i, j \in 1..Len(xs) :
          i < j =>
            IF reverse
            THEN PyLess(sort_key(xs[i], keys), sort_key(xs[j], keys)) = "nlt"
            ELSE PyLess(sort_key(xs[j], keys), sort_key(xs[i], keys)) = "nlt"

\* C22: a call of either sorting operation that returns after a report
\* returns the fallback only (the empty list; the list it was given when the
\* sort step of sorting_dict_by_keys failed on validated arguments), a call
\* that returns without a report returns the complete sorted result, and
\* the sort step is reached only with validated arguments and no report.
C22_ReportIffFallback ==
    /\ (fn = "sorting_list" /\ pc = "returned") =>
          /\ ret.t = "list"
          /\ log # <<>> => ret = PyList(<<>>)
          /\ log = <<>> => SortedListOf(ret.items, json_input)
    /\ (fn = "sorting_dict_by_keys" /\ pc = "returned") =>
          /\ ret.t = "list"
          /\ log # <<>> =>
                \/ ret = PyList(<<>>)
                \/ ret = data /\ ListOfDicts(data) /\ AllStrKeys
          /\ log = <<>> => SortedRecordsOf(ret.items, data)
    /\ pc \in {"sl_set", "sl_sort"} => PassesValidation(json_input) /\ log = <<>>
    /\ pc = "sd_sort" => ListOfDicts(data) /\ AllStrKeys /\ log = <<>>

\* The sort step failed on two validated records: the call reported once
\* and returned the two records as given.
C22_Witness ==
    /\ fn = "sorting_dict_by_keys" /\ pc = "returned"
    /\ Len(log) = 1
    /\ ~sortedRaises
    /\ ListOfDicts(data) /\ Len(data.items) = 2
    /\ keys = <<PyStr("age")>>
    /\ ret = data

\* The ways a call may end: a returned list, or SystemExit with code 1 after
\* a report; never an exception of another kind.
TerminalOK ==
    /\ pc # "raised"
    /\ pc = "returned" => ret.t = "list"
    /\ pc = "halted" => exitcode = 1 /\ log # <<>>

\* How far into its function a call is: the statement it is at.
Position ==
    CASE pc \in {"sl_validate", "sd_validate"} -> 0
      [] pc \in {"sl_elements", "sd_dicts"} -> 1
      [] pc \in {"sl_set", "sd_keys"} -> 2
      [] pc \in {"sl_sort", "sd_sort"} -> 3
      [] pc \in {"sl_except", "sd_except"} -> 4
      [] OTHER -> 5

\* The call is at a statement of the function it is a call of.
AtStatement ==
    \/ fn = "sorting_list"
          /\ pc \in {"sl_validate", "sl_elements", "sl_set", "sl_sort", "sl_except"}
    \/ fn = "sorting_dict_by_keys"
          /\ pc \in {"sd_validate", "sd_dicts", "sd_keys", "sd_sort", "sd_except"}

\* C23: every call of sorting_list or sorting_dict_by_keys ends, and ends by
\* returning a list or by SystemExit with code 1 after a report; no other
\* exception leaves the call.  A call that has not ended is at a statement
\* of its function, and every step takes it to a later statement or ends
\* it, so no call takes more than five steps.
C23_Total ==
    /\ [](Terminal => TerminalOK)
    /\ [](~Terminal => AtStatement)
    /\ [][round' = round => Position' > Position]_vars

\* The sort step of sorting_list failed on a validated list under stop=True:
\* the call ended with SystemExit 1 after one report.
C23_Witness ==
    /\ fn = "sorting_list" /\ pc = "halted" /\ exitcode = 1 /\ Len(log) = 1
    /\ stop /\ sortedRaises
    /\ PassesValidation(json_input) /\ Len(json_input.items) = 2

-----------------------------------------------------------------------------
(* Calls of the sorting functions running concurrently in threads, all     *)
(* passed the same list object.  A thread's frame holds its arguments and  *)
(* locals; a step of a thread is one statement of its function.            *)

NumCalls == 2       \* threads running a call

Threads == 1..NumCalls

\* No sorting call is under way in the single-call variables.
IdleSorting ==
    /\ json_input = PyList(<<>>)
    /\ stop = TRUE
    /\ data = PyList(<<>>)
    /\ keys = <<>>
    /\ reverse = FALSE
    /\ sortedRaises = FALSE
    /\ unique_values = <<>>
    /\ round = 1
    /\ prev = NoCall
    /\ ret_obj = "none"

NoFrame ==
    /\ fn = "none"
    /\ pc = "idle"
    /\ log = <<>>
    /\ ret = NoValue
    /\ exitcode = -1

\* The frame of a call at its first statement.
Frame(f, stp, ks, rev) ==
    [fn |-> f, stop |-> stp, keys |-> ks, reverse |-> rev,
     pc |-> IF f = "sorting_list" THEN "sl_validate" ELSE "sd_validate",
     unique_values |-> <<>>, log |-> <<>>, ret |-> NoValue, exitcode |-> -1]

\* The frame after SystemExit left the call / after return value.
Halted(c, e) == [c EXCEPT !.pc = "halted", !.log = e.log, !.exitcode = e.code]
Returned(c, l, value) == [c EXCEPT !.pc = "returned", !.log = l, !.ret = value]

\* One statement of sorting_list in frame c on the list object x: the
\* frames and the list object it may leave.
ListSteps(c, x) ==
    CASE c.pc = "sl_validate" ->
            LET v == validate_input(c.log, x, {"list"}, c.stop)
            IN  {[call |-> IF v.exc # "none" THEN Halted(c, v)
                           ELSE IF ~v.out THEN Returned(c, v.log, PyList(<<>>))
                           ELSE [c EXCEPT !.pc = "sl_elements"],
                  shared |-> x]}
      [] c.pc = "sl_elements" ->
            LET e == error_msg(c.log, "Newt.utility.sorting_list", c.stop)
            IN  {[call |-> IF \A i \in 1..Len(x.items) :
                                 isinstance(x.items[i], {"str", "int"})
                           THEN [c EXCEPT !.pc = "sl_set"]
                           ELSE IF e.exc = "none"
                           THEN Returned(c, e.log, PyList(<<>>))
                           ELSE IF ExceptException(e.exc)
                           THEN [c EXCEPT !.pc = "sl_except", !.log = e.log]
                           ELSE Halted(c, e),
                  shared |-> x]}
      [] c.pc = "sl_set" ->
            {[call |-> [c EXCEPT !.pc = "sl_sort", !.unique_values = o],
              shared |-> x] : o \in IterationOrders(PySet(x.items))}
      [] c.pc = "sl_sort" ->
            LET str_values == sorted(OwnKey(SelectSeq(c.unique_values, IsStr)), FALSE)
                int_values == sorted(OwnKey(SelectSeq(c.unique_values, IsInt)), FALSE)
                exc == IF str_values.exc # "none" THEN str_values.exc
                       ELSE int_values.exc
            IN  {[call |-> IF exc = "none"
                           THEN Returned(c, c.log,
                                         PyList(str_values.items \o int_values.items))
                           ELSE IF ExceptException(exc)
                           THEN [c EXCEPT !.pc = "sl_except"]
                           ELSE [c EXCEPT !.pc = "raised"],
                  shared |-> x]}
      [] c.pc = "sl_except" ->
            LET e == error_msg(c.log, "Newt.utility.sorting_list", c.stop)
            IN  {[call |-> IF e.exc = "none"
                           THEN Returned(c, e.log, PyList(<<>>))
                           ELSE Halted(c, e),
                  shared |-> x]}
      [] OTHER -> {}

\* Variant: the sort step sorts the list object in place and returns it.
DictStepsInPlace(c, x) ==
    CASE c.pc = "sd_validate" ->
            LET v == validate_input(c.log, x, {"list"}, TRUE)
            IN  {[call |-> IF v.exc # "none" THEN Halted(c, v)
                           ELSE IF ~v.out THEN Returned(c, v.log, PyList(<<>>))
                           ELSE [c EXCEPT !.pc = "sd_dicts"],
                  shared |-> x]}
      [] c.pc = "sd_dicts" ->
            LET e == error_msg(c.log, "Newt.utility.sorting_dict_by_keys", TRUE)
            IN  {[call |-> IF \A i \in 1..Len(x.items) :
                                 isinstance(x.items[i], {"dict"})
                           THEN [c EXCEPT !.pc = "sd_keys"]
                           ELSE IF e.exc = "none"
                           THEN Returned(c, e.log, PyList(<<>>))
                           ELSE Halted(c, e),
                  shared |-> x]}
      [] c.pc = "sd_keys" ->
            LET e == error_msg(c.log, "Newt.utility.sorting_dict_by_keys", TRUE)
            IN  {[call |-> IF \A i \in 1..Len(c.keys) :
                                 isinstance(c.keys[i], {"str"})
                           THEN [c EXCEPT !.pc = "sd_sort"]
                           ELSE IF e.exc = "none" THEN Returned(c, e.log, x)
                           ELSE Halted(c, e),
                  shared |-> x]}
      [] c.pc = "sd_sort" ->
            LET r == sorted(WithKey(x.items, c.keys), c.reverse)
            IN  {IF r.exc = "none"
                 THEN [call |-> Returned(c, c.log, PyList(r.items)),
                       shared |-> PyList(r.items)]
                 ELSE [call |-> [c EXCEPT !.pc = "sd_except"], shared |-> x]}
      [] c.pc = "sd_except" ->
            LET e == error_msg(c.log, "Newt.utility.sorting_dict_by_keys", FALSE)
            IN  {[call |-> IF e.exc = "none" THEN Returned(c, e.log, x)
                           ELSE Halted(c, e),
                  shared |-> x]}
      [] OTHER -> {}

\* One statement of sorting_dict_by_keys in frame c on the list object x.
DictSteps(c, x) ==
    CASE c.pc = "sd_validate" ->
            LET v == validate_input(c.log, x, {"list"}, TRUE)
            IN  {[call |-> IF v.exc # "none" THEN Halted(c, v)
                           ELSE IF ~v.out THEN Returned(c, v.log, PyList(<<>>))
                           ELSE [c EXCEPT !.pc = "sd_dicts"],
                  shared |-> x]}
      [] c.pc = "sd_dicts" ->
            LET e == error_msg(c.log, "Newt.utility.sorting_dict_by_keys", TRUE)
            IN  {[call |-> IF \A i \in 1..Len(x.items) :
                                 isinstance(x.items[i], {"dict"})
                           THEN [c EXCEPT !.pc = "sd_keys"]
                           ELSE IF e.exc = "none"
                           THEN Returned(c, e.log, PyList(<<>>))
                           ELSE Halted(c, e),
                  shared |-> x]}
      [] c.pc = "sd_keys" ->
            LET e == error_msg(c.log, "Newt.utility.sorting_dict_by_keys", TRUE)
            IN  {[call |-> IF \A i \in 1..Len(c.keys) :
                                 isinstance(c.keys[i], {"str"})
                           THEN [c EXCEPT !.pc = "sd_sort"]
                           ELSE IF e.exc = "none" THEN Returned(c, e.log, x)
                           ELSE Halted(c, e),
                  shared |-> x]}
      [] c.pc = "sd_sort" ->
            LET r == sorted(WithKey(x.items, c.keys), c.reverse)
            IN  {[call |-> IF r.exc = "none"
                           THEN Returned(c, c.log, PyList(r.items))
                           ELSE IF ExceptException(r.exc)
                           THEN [c EXCEPT !.pc = "sd_except"]
                           ELSE [c EXCEPT !.pc = "raised"],
                  shared |-> x]}
      [] c.pc = "sd_except" ->
            LET e == error_msg(c.log, "Newt.utility.sorting_dict_by_keys", FALSE)
            IN  {[call |-> IF e.exc = "none" THEN Returned(c, e.log, x)
                           ELSE Halted(c, e),
                  shared |-> x]}
      [] OTHER -> {}

Steps(c, x) == IF c.fn = "sorting_list" THEN ListSteps(c, x) ELSE DictSteps(c, x)

\* Thread t executes the next statement of its call.
ThreadStep(t) ==
    /\ \E s \in Steps(calls[t], shared) :
          /\ calls' = [calls EXCEPT ![t] = s.call]
          /\ shared' = s.shared
    /\ UNCHANGED <<shared_orig, fetchVars, selectVars, loggingVars, pauseVars,
                   sortVars, frameVars>>

\* The list objects the threads are passed: text and integers with a
\* duplicate, records that tie on a key, records whose values do not order,
\* a list with an element that is not a dict, and a value that is not a list.
SharedInputs ==
    {PyList(<<PyStr("b"), PyInt(2), PyStr("a"), PyStr("b")>>),
     PyList(<<PyInt(2), PyInt(1)>>),
     PyList(<<PyDict([k \in Fields |-> IF k = "age" THEN PyInt(1) ELSE PyStr("b")]),
              PyDict([k \in Fields |-> IF k = "age" THEN PyInt(1) ELSE PyStr("a")])>>),
     PyList(<<PyDict([k \in {"age"} |-> PyInt(2)]),
              PyDict([k \in {"name"} |-> PyStr("a")]),
              PyDict([k \in {"age"} |-> PyInt(1)])>>),
     PyList(<<PyDict([k \in {"age"} |-> PyInt(1)]),
              PyDict([k \in {"age"} |-> PyStr("a")])>>),
     PyList(<<PyDict([k \in {"age"} |-> PyInt(1)]), PyInt(1)>>),
     PyList(<<>>),
     PyStr("not a list")}

\* The calls a thread may make.
CallFrames ==
    {Frame("sorting_list", stp, <<>>, FALSE) : stp \in BOOLEAN}
        \cup {Frame("sorting_dict_by_keys", TRUE, ks, rev) :
                 ks \in {<<>>, <<PyStr("age")>>, <<PyStr("name")>>, <<PyInt(123)>>},
                 rev \in BOOLEAN}

InitThreads ==
    /\ calls \in [Threads -> CallFrames]
    /\ shared \in SharedInputs
    /\ shared_orig = shared
    /\ IdleFetch
    /\ IdleSelect
    /\ IdleLogging
    /\ IdlePause
    /\ IdleSorting
    /\ NoFrame

NextThreads == \E t \in Threads : ThreadStep(t)

SpecThreads == InitThreads /\ [][NextThreads]_vars

Ended(c) == c.pc \in {"returned", "halted", "raised"}

\* The frames a call may end in when it runs alone on the list object x.
RECURSIVE RunAlone(_, _)
RunAlone(c, x) ==
    IF Ended(c) THEN {c}
    ELSE UNION {RunAlone(s.call, s.shared) : s \in Steps(c, x)}

\* What the caller sees of an ended call.
Outcome(c) == [pc |-> c.pc, ret |-> c.ret, exitcode |-> c.exitcode, log |-> c.log]

\* C24: with calls of sorting_list and sorting_dict_by_keys running in
\* several threads on the same list, under every interleaving of their
\* statements, every call that has ended has the outcome the same call has
\* when it runs alone on that list, the list is as it was passed, and a
\* step of one thread changes no other thread's frame and not the list.
C24_ConcurrentAsAlone ==
    /\ [](\A t \in Threads :
            Ended(calls[t]) =>
              Outcome(calls[t]) \in
                {Outcome(c) :
                   c \in RunAlone(Frame(calls[t].fn, calls[t].stop,
                                        calls[t].keys, calls[t].reverse),
                                  shared_orig)})
    /\ [](shared = shared_orig)
    /\ [][/\ shared' = shared
          /\ \A t, u \in Threads :
                (calls'[t] # calls[t] /\ u # t) => calls'[u] = calls[u]]_vars

\* Two threads sorted the same two records, one by age (a tie, input order
\* kept) and one by name (the other order), and both have returned.
C24_Witness ==
    /\ calls # <<>>
    /\ calls[1].fn = "sorting_dict_by_keys" /\ calls[1].keys = <<PyStr("age")>>
    /\ calls[2].fn = "sorting_dict_by_keys" /\ calls[2].keys = <<PyStr("name")>>
    /\ ~calls[1].reverse /\ ~calls[2].reverse
    /\ calls[1].pc = "returned" /\ calls[2].pc = "returned"
    /\ Len(shared.items) = 2
    /\ calls[1].ret = shared
    /\ calls[2].ret = PyList(<<shared.items[2], shared.items[1]>>)

-----------------------------------------------------------------------------
(* The list object returned by sorting_dict_by_keys.                       *)

\* C25: every list a call of sorting_dict_by_keys returns is a list object
\* made by the call, never the list object the caller passed as data.
C25_ReturnsNewList ==
    (fn = "sorting_dict_by_keys" /\ pc = "returned") => ret_obj = "new"

-----------------------------------------------------------------------------
(* newtutils.network.fetch_data_from_url(base_url, params, headers, mode,  *)
(* timeout, repeat_on_fail), with the console helpers it calls through     *)
(* the module object NewtCons (newtutils.console).                         *)

MaxRequests == 3    \* requests.get calls explored in one call

\* The names the module newtutils.console defines.
ConsoleNames ==
    {"_divider", "error_msg", "validate_input", "_beep_boop", "_retry_pause",
     "check_location", "select_from_input"}

\* NewtCons.<name>: the lookup raises AttributeError unless the module
\* defines the name.
HasAttrConsole(name) == name \in ConsoleNames

\* newtutils.console.validate_input(value, expected_type, stop, location)
console_validate_input(l, value, expected_type, stp, location) ==
    IF ~isinstance(value, expected_type)
    THEN LET e == error_msg(l, "Newt.console.validate_input > " \o location, stp)
         IN  [log |-> e.log, exc |-> e.exc, code |-> e.code, out |-> FALSE]
    ELSE [log |-> l, exc |-> "none", code |-> -1, out |-> TRUE]

SuccessStatuses == {200, 206}
KnownErrorStatuses == {400, 401, 403, 404, 500, 502, 503}

\* What requests.get may do: a response with a status and a text, or one of
\* the two exceptions the function handles.
Responses ==
    {[kind |-> "response", status |-> st, text |-> tx] :
        st \in SuccessStatuses \cup {404, 503, 301, 418}, tx \in {"A", "B"}}
      \cup {[kind |-> k, status |-> 0, text |-> ""] :
                k \in {"ReadTimeout", "RequestException"}}

\* beep_boop = mode in ("alert", "manual")
beep_boop == mode \in {"alert", "manual"}

\* if not validate_input(base_url, str, ...): return None
\* if params is not None: if not validate_input(params, dict, ...): return None
\* Both validations report with the default stop=True.
FT_Validate ==
    /\ fn = "fetch_data_from_url" /\ pc = "ft_validate"
    /\ LET v == console_validate_input(log, base_url, {"str"}, TRUE,
                     "Newt.network.fetch_data_from_url.base_url")
           w == console_validate_input(log, params, {"dict"}, TRUE,
                     "Newt.network.fetch_data_from_url.params")
       IN  IF v.exc # "none" THEN Halt(v)
           ELSE IF ~v.out THEN Return(v.log, PyNone)
           ELSE IF params = PyNone
           THEN /\ pc' = "ft_request"
                /\ UNCHANGED <<log, ret, exitcode, ret_obj>>
           ELSE IF w.exc # "none" THEN Halt(w)
           ELSE IF ~w.out THEN Return(w.log, PyNone)
           ELSE /\ pc' = "ft_request"
                /\ UNCHANGED <<log, ret, exitcode, ret_obj>>
    /\ UNCHANGED <<fn, fetchVars, concVars, selectVars, loggingVars, pauseVars>>
    /\ UNCHANGED <<json_input, stop, data, keys, reverse, sortedRaises,
                   unique_values, round, prev>>

\* while True: try: response = requests.get(...)
FT_Request ==
    /\ fn = "fetch_data_from_url" /\ pc = "ft_request"
    /\ requests < MaxRequests
    /\ requests' = requests + 1
    /\ response' \in Responses
    /\ pc' = "ft_response"
    /\ UNCHANGED <<base_url, params, mode, repeat_on_fail, pauses>>
    /\ UNCHANGED <<fn, log, ret, exitcode, concVars, selectVars, loggingVars,
                   pauseVars, sortVars>>

\* After the failure was reported: the beep, looked up in NewtCons, which
\* raises AttributeError from inside the try block or the except clause;
\* neither is caught.
BeepRaises == beep_boop /\ ~HasAttrConsole("beep_boop")

\* The rest of the loop body: the status checks with their return, the two
\* except clauses, the manual decision, and `if not repeat_on_fail:
\* return None`.
FT_Response ==
    /\ fn = "fetch_data_from_url" /\ pc = "ft_response"
    /\ LET e == error_msg(log, "Newt.network.fetch_data_from_url", FALSE)
           reported == response.kind # "response"
                         \/ response.status \in KnownErrorStatuses
           l == IF reported THEN e.log ELSE log
           AutoModes ==
               IF ~repeat_on_fail THEN Return(l, PyNone)
               ELSE /\ pc' = "ft_pause"
                    /\ log' = l
                    /\ UNCHANGED <<ret, exitcode, ret_obj>>
       IN  IF response.kind = "response" /\ response.status \in SuccessStatuses
           THEN Return(log, PyStr(response.text))
           ELSE IF reported /\ BeepRaises
           THEN /\ pc' = "raised"
                /\ log' = l
                /\ UNCHANGED <<ret, exitcode, ret_obj>>
           ELSE IF response.kind = "response"
                     /\ response.status \in KnownErrorStatuses
                     /\ mode = "manual"
           THEN \E repeat_code, continue_code \in {"y", "n"} :
                    IF repeat_code = "y"
                    THEN /\ pc' = "ft_request"
                         /\ log' = l
                         /\ UNCHANGED <<ret, exitcode, ret_obj>>
                    ELSE IF continue_code = "y" THEN Return(l, PyNone)
                    ELSE Halt([log |-> l, code |-> 0])
           ELSE AutoModes
    /\ UNCHANGED <<fn, fetchVars, concVars, selectVars, loggingVars, pauseVars>>
    /\ UNCHANGED <<json_input, stop, data, keys, reverse, sortedRaises,
                   unique_values, round, prev>>

\* NewtCons.retry_pause(beep=beep_boop): the lookup raises AttributeError;
\* were the name there, the pause would run and the loop would go round, or
\* Ctrl+C during the countdown would halt the call.
FT_RetryPause ==
    /\ fn = "fetch_data_from_url" /\ pc = "ft_pause"
    /\ IF ~HasAttrConsole("retry_pause")
       THEN /\ Propagate
            /\ UNCHANGED pauses
       ELSE \/ /\ pauses' = pauses + 1
               /\ pc' = "ft_request"
               /\ UNCHANGED <<log, ret, exitcode, ret_obj>>
            \/ /\ pauses' = pauses + 1
               /\ Halt(error_msg(log, "Newt.console._retry_pause : KeyboardInterrupt", TRUE))
    /\ UNCHANGED <<base_url, params, mode, repeat_on_fail, response, requests>>
    /\ UNCHANGED <<fn, concVars, selectVars, loggingVars, pauseVars>>
    /\ UNCHANGED <<json_input, stop, data, keys, reverse, sortedRaises,
                   unique_values, round, prev>>

InitFetch ==
    /\ fn = "fetch_data_from_url"
    /\ pc = "ft_validate"
    /\ log = <<>>
    /\ ret = NoValue
    /\ exitcode = -1
    /\ base_url \in {PyStr("https://example.com"), PyInt(1)}
    /\ params \in {PyNone, PyDict([k \in {"q"} |-> PyInt(1)]), PyList(<<>>)}
    /\ mode \in {"auto", "alert", "manual"}
    /\ repeat_on_fail \in BOOLEAN
    /\ response = NoResponse
    /\ requests = 0
    /\ pauses = 0
    /\ IdleSorting
    /\ IdleConc
    /\ IdleSelect
    /\ IdleLogging
    /\ IdlePause

NextFetch ==
    \/ FT_Validate
    \/ FT_Request
    \/ FT_Response
    \/ FT_RetryPause

SpecFetch == InitFetch /\ [][NextFetch]_vars

\* The call was given a str URL and params that are None or a dict, and
\* runs in mode auto or alert.
FetchArgsValid ==
    /\ fn = "fetch_data_from_url"
    /\ base_url.t = "str"
    /\ params.t \in {"NoneType", "dict"}
    /\ mode \in {"auto", "alert"}

\* C26: with repeat_on_fail=False in mode auto or alert the call ends by
\* returning, after exactly one request and no retry pause: the response
\* text when the status is 200 or 206, None in every other case (known
\* error status, other status, read timeout, other request exception).
C26_SingleAttempt ==
    (FetchArgsValid /\ ~repeat_on_fail /\ Terminal) =>
        /\ pc = "returned"
        /\ requests = 1
        /\ pauses = 0
        /\ ret = IF response.kind = "response" /\ response.status \in SuccessStatuses
                 THEN PyStr(response.text)
                 ELSE PyNone

\* C27: with repeat_on_fail=True in mode auto or alert the call never
\* returns None and lets no exception out: a failed attempt is followed by
\* a retry pause, the call returns only the text of a response with status
\* 200 or 206, and on return there was one pause for every request but the
\* last.
C27_RetriesUntilSuccess ==
    (FetchArgsValid /\ repeat_on_fail) =>
        /\ pc # "raised"
        /\ pc = "returned" =>
              /\ response.kind = "response"
              /\ response.status \in SuccessStatuses
              /\ ret = PyStr(response.text)
              /\ pauses = requests - 1
        /\ pc = "ft_request" => pauses = requests
        /\ pc \in {"ft_response", "ft_pause"} => pauses = requests - 1

-----------------------------------------------------------------------------
(* newtutils.console.select_from_input(select_dict)                        *)

MaxPrompts == 3     \* input() calls explored in one call

\* What the user may type at the prompt.
RawInputs == {"1", " 1 ", "2", "7", "x", "X", "a", "A", ""}

\* input(...).strip().lower()
StripLower(raw) ==
    CASE raw = " 1 " -> "1"
      [] raw = "X" -> "x"
      [] raw = "A" -> "a"
      [] OTHER -> raw

\* str.isdigit(): every character is a digit and there is at least one.
isdigit(text) == text \in {"1", "2", "7"}

\* What input() may do: return a text, or raise KeyboardInterrupt (Ctrl+C)
\* or EOFError (the input stream has ended).
InputEvents ==
    {[kind |-> "text", raw |-> r] : r \in RawInputs}
        \cup {[kind |-> k, raw |-> ""] : k \in {"KeyboardInterrupt", "EOFError"}}

\* The dicts of options: any of the keys "1", "2", "x", "a".
SelectDicts ==
    {PyDict([k \in D |-> PyStr("Option")]) : D \in SUBSET {"1", "2", "x", "a"}}

\* validate_input(select_dict, dict, ...); the list is printed; choice = "x"
SI_Validate ==
    /\ fn = "select_from_input" /\ pc = "si_validate"
    /\ LET v == console_validate_input(log, select_dict, {"dict"}, TRUE,
                     "select_from_input : select_dict")
       IN  IF v.exc # "none"
           THEN /\ Halt(v)
                /\ UNCHANGED choice
           ELSE /\ choice' = "x"
                /\ pc' = "si_while"
                /\ UNCHANGED <<log, ret, exitcode, ret_obj>>
    /\ UNCHANGED <<fn, select_dict, entered, prompts, fetchVars, concVars,
                   loggingVars, pauseVars>>
    /\ UNCHANGED <<json_input, stop, data, keys, reverse, sortedRaises,
                   unique_values, round, prev>>

\* while choice not in select_dict: ...  When the test fails the loop is
\* left and the function ends without a return statement: it returns None.
SI_While ==
    /\ fn = "select_from_input" /\ pc = "si_while"
    /\ IF choice \in DOMAIN select_dict.f
       THEN Return(log, PyNone)
       ELSE /\ pc' = "si_input"
            /\ UNCHANGED <<log, ret, exitcode, ret_obj>>
    /\ UNCHANGED <<fn, selectVars, fetchVars, concVars, loggingVars, pauseVars>>
    /\ UNCHANGED <<json_input, stop, data, keys, reverse, sortedRaises,
                   unique_values, round, prev>>

\* The loop body: input, the x check, the isdigit check, the membership
\* check with its return, and the two except clauses.  SystemExit raised
\* by error_msg inside the try block passes both except clauses.
SI_Input ==
    /\ fn = "select_from_input" /\ pc = "si_input"
    /\ prompts < MaxPrompts
    /\ prompts' = prompts + 1
    /\ \E ev \in InputEvents :
          IF ev.kind = "KeyboardInterrupt"
          THEN /\ Halt(error_msg(log,
                        "Newt.console.select_from_input : KeyboardInterrupt", TRUE))
               /\ UNCHANGED <<choice, entered>>
          ELSE IF ev.kind = "EOFError"
          THEN /\ Halt(error_msg(log,
                        "Newt.console.select_from_input : Exception", TRUE))
               /\ UNCHANGED <<choice, entered>>
          ELSE /\ entered' = ev.raw
               /\ choice' = StripLower(ev.raw)
               /\ IF choice' = "x"
                  THEN LET e == error_msg(log,
                                  "Newt.console.select_from_input : choice = [X]", TRUE)
                       IN  IF ExceptException(e.exc)
                           THEN Halt(error_msg(e.log,
                                    "Newt.console.select_from_input : Exception", TRUE))
                           ELSE Halt(e)
                  ELSE IF ~isdigit(choice')
                  THEN /\ pc' = "si_while"
                       /\ UNCHANGED <<log, ret, exitcode, ret_obj>>
                  ELSE IF choice' \in DOMAIN select_dict.f
                  THEN Return(log, PyStr(choice'))
                  ELSE /\ pc' = "si_while"
                       /\ UNCHANGED <<log, ret, exitcode, ret_obj>>
    /\ UNCHANGED <<fn, select_dict, fetchVars, concVars, loggingVars, pauseVars>>
    /\ UNCHANGED <<json_input, stop, data, keys, reverse, sortedRaises,
                   unique_values, round, prev>>

InitSelect ==
    /\ fn = "select_from_input"
    /\ pc = "si_validate"
    /\ log = <<>>
    /\ ret = NoValue
    /\ exitcode = -1
    /\ select_dict \in SelectDicts \cup {PyList(<<>>)}
    /\ choice = ""
    /\ entered = ""
    /\ prompts = 0
    /\ IdleSorting
    /\ IdleFetch
    /\ IdleConc
    /\ IdleLogging
    /\ IdlePause

NextSelect ==
    \/ SI_Validate
    \/ SI_While
    \/ SI_Input

SpecSelect == InitSelect /\ [][NextSelect]_vars

\* C28: a call of select_from_input that returns has prompted the user and
\* returns a key of select_dict, the one the user entered last; it never
\* returns None, and a call that does not return halts.
C28_ReturnsEnteredKey ==
    /\ (fn = "select_from_input" /\ pc = "returned") =>
          /\ prompts >= 1
          /\ ret.t = "str"
          /\ ret.s \in DOMAIN select_dict.f
          /\ ret.s = StripLower(entered)
    /\ (fn = "select_from_input" /\ Terminal) => pc \in {"returned", "halted"}

-----------------------------------------------------------------------------
(* newtutils.files.setup_logging(_dir) and cleanup_logging(setup_data,     *)
(* file_target), and the writes the program makes to sys.stdout and        *)
(* sys.stderr around them.                                                 *)

MaxWrites == 4      \* writes to sys.stdout and sys.stderr explored

\* Tee.write(s): self.a.write(s); self.b.write(s), with a the stream that
\* was sys.stdout at setup and b the log file.  A write to the closed file
\* raises ValueError.
TeeWrite(w, a) ==
    LET wa == [w EXCEPT ![a] = @ + 1]
    IN  IF file_content = "open"
        THEN [wa EXCEPT !["file"] = @ + 1]
        ELSE [wa EXCEPT !["closed_file"] = @ + 1]

\* A write to the stream object a name refers to.
StreamWrite(w, stream) ==
    IF stream = "tee" THEN TeeWrite(w, setup_data.items[3].s)
    ELSE [w EXCEPT ![stream] = @ + 1]

Written == writes["stdout0"] + writes["stderr0"]

\* validate_input(_dir, str, ...); origin_stdout = sys.stdout;
\* file_content = open(...); sys.stdout = Tee(origin_stdout, file_content);
\* sys.stderr = sys.stdout; return (time_file, file_content, origin_stdout)
LG_Setup ==
    /\ fn = "setup_logging" /\ pc = "lg_setup"
    /\ LET v == console_validate_input(log, dir_, {"str"}, TRUE,
                     "Newt.files.setup_logging : _dir")
       IN  IF v.exc # "none"
           THEN /\ Halt(v)
                /\ UNCHANGED <<sys_stdout, sys_stderr, file_content, setup_data>>
           ELSE /\ file_content' = "open"
                /\ sys_stdout' = "tee"
                /\ sys_stderr' = "tee"
                /\ setup_data' = PyTuple(<<PyStr("time_file"), PyStr("file_content"),
                                          PyStr(sys_stdout)>>)
                /\ pc' = "lg_logging"
                /\ UNCHANGED <<log, ret, exitcode, ret_obj>>
    /\ UNCHANGED <<fn, dir_, writes, fetchVars, concVars, selectVars, pauseVars>>
    /\ UNCHANGED <<json_input, stop, data, keys, reverse, sortedRaises,
                   unique_values, round, prev>>

\* The program writes to sys.stdout (print) or to sys.stderr (a warning, a
\* traceback), before, between and after the two calls.
LG_Write ==
    /\ fn = "setup_logging" /\ pc \in {"lg_setup", "lg_logging", "lg_cleaned"}
    /\ Written < MaxWrites
    /\ \E stream \in {sys_stdout, sys_stderr} : writes' = StreamWrite(writes, stream)
    /\ UNCHANGED <<dir_, sys_stdout, sys_stderr, file_content, setup_data>>
    /\ UNCHANGED <<fetchVars, concVars, selectVars, pauseVars, sortVars, frameVars>>

\* validate_input(setup_data, tuple, ...); sys.stdout = origin_stdout;
\* file_content.close(); print("Log moved to", file_target); the file is
\* moved.  sys.stderr is not assigned.
LG_Cleanup ==
    /\ fn = "setup_logging" /\ pc = "lg_logging"
    /\ LET v == console_validate_input(log, setup_data, {"tuple"}, TRUE,
                     "Newt.files.cleanup_logging : setup_data")
       IN  IF v.exc # "none"
           THEN /\ Halt(v)
                /\ UNCHANGED <<sys_stdout, file_content, writes>>
           ELSE /\ sys_stdout' = setup_data.items[3].s
                /\ file_content' = "closed"
                /\ writes' = [writes EXCEPT ![setup_data.items[3].s] = @ + 1]
                /\ pc' = "lg_cleaned"
                /\ UNCHANGED <<log, ret, exitcode, ret_obj>>
    /\ UNCHANGED <<fn, dir_, sys_stderr, setup_data, fetchVars, concVars, selectVars,
                   pauseVars>>
    /\ UNCHANGED <<json_input, stop, data, keys, reverse, sortedRaises,
                   unique_values, round, prev>>

InitLogging ==
    /\ fn = "setup_logging"
    /\ pc = "lg_setup"
    /\ log = <<>>
    /\ ret = NoValue
    /\ exitcode = -1
    /\ dir_ \in {PyStr("logs"), PyNone}
    /\ sys_stdout = "stdout0"
    /\ sys_stderr = "stderr0"
    /\ file_content = "none"
    /\ setup_data = NoValue
    /\ writes = [k \in Sinks |-> 0]
    /\ IdleSorting
    /\ IdleFetch
    /\ IdleConc
    /\ IdleSelect
    /\ IdlePause

NextLogging ==
    \/ LG_Setup
    \/ LG_Write
    \/ LG_Cleanup

SpecLogging == InitLogging /\ [][NextLogging]_vars

\* C29: after setup_logging and cleanup_logging on its returned tuple,
\* sys.stdout and sys.stderr refer to the streams they referred to before
\* setup_logging, the log file is closed, and no write to either reaches
\* the closed file.
C29_StreamsRestored ==
    (fn = "setup_logging" /\ pc = "lg_cleaned") =>
        /\ sys_stdout = "stdout0"
        /\ sys_stderr = "stderr0"
        /\ file_content = "closed"
        /\ writes["closed_file"] = 0

-----------------------------------------------------------------------------
(* newtutils.console._retry_pause(seconds=5, beep=True)                    *)

MaxSeconds == 3     \* longest pause asked for
DefaultSeconds == 5 \* seconds = 5, the replacement of an invalid value

\* Values passed as seconds: integers below, at and above 1, the two bools,
\* a text, the float 2.5 and None.
SecondsInputs ==
    {PyInt(n) : n \in -1..MaxSeconds}
        \cup {PyBool(TRUE), PyBool(FALSE), PyStr("a"), PyFloat(5), PyNone}

\* if not validate_input(seconds, int, stop=False, ...): seconds = 5
RP_Validate ==
    /\ fn = "_retry_pause" /\ pc = "rp_validate"
    /\ LET v == console_validate_input(log, seconds, {"int"}, FALSE,
                     "_retry_pause : seconds")
       IN  IF v.exc # "none"
           THEN /\ Halt(v)
                /\ UNCHANGED seconds
           ELSE /\ seconds' = IF v.out THEN seconds ELSE PyInt(DefaultSeconds)
                /\ log' = v.log
                /\ pc' = "rp_range"
                /\ UNCHANGED <<ret, exitcode, ret_obj>>
    /\ UNCHANGED <<fn, seconds_arg, beep, loop_i, sleeps, beeps>>
    /\ UNCHANGED <<fetchVars, concVars, selectVars, loggingVars>>
    /\ UNCHANGED <<json_input, stop, data, keys, reverse, sortedRaises,
                   unique_values, round, prev>>

\* Variant: the value below 1 is reported and kept.
RP_RangeKeepsValue ==
    /\ fn = "_retry_pause" /\ pc = "rp_range"
    /\ IF seconds.n < 1
       THEN LET e == error_msg(log,
                       "Newt.console._retry_pause : seconds less then 1", FALSE)
            IN  /\ log' = e.log
                /\ pc' = "rp_beep"
                /\ UNCHANGED <<seconds, ret, exitcode, ret_obj>>
       ELSE /\ pc' = "rp_beep"
            /\ UNCHANGED <<seconds, log, ret, exitcode, ret_obj>>
    /\ UNCHANGED <<fn, seconds_arg, beep, loop_i, sleeps, beeps>>
    /\ UNCHANGED <<fetchVars, concVars, selectVars, loggingVars>>
    /\ UNCHANGED <<json_input, stop, data, keys, reverse, sortedRaises,
                   unique_values, round, prev>>

\* if seconds < 1: error_msg(..., stop=False); seconds = 5
RP_Range ==
    /\ fn = "_retry_pause" /\ pc = "rp_range"
    /\ IF seconds.n < 1
       THEN LET e == error_msg(log,
                       "Newt.console._retry_pause : seconds less then 1", FALSE)
            IN  IF e.exc # "none"
                THEN /\ Halt(e)
                     /\ UNCHANGED seconds
                ELSE /\ seconds' = PyInt(DefaultSeconds)
                     /\ log' = e.log
                     /\ pc' = "rp_beep"
                     /\ UNCHANGED <<ret, exitcode, ret_obj>>
       ELSE /\ pc' = "rp_beep"
            /\ UNCHANGED <<seconds, log, ret, exitcode, ret_obj>>
    /\ UNCHANGED <<fn, seconds_arg, beep, loop_i, sleeps, beeps>>
    /\ UNCHANGED <<fetchVars, concVars, selectVars, loggingVars>>
    /\ UNCHANGED <<json_input, stop, data, keys, reverse, sortedRaises,
                   unique_values, round, prev>>

\* if beep: _beep_boop(); print("Retrying in ...").  The call is outside
\* the try block: Ctrl+C while the tones play leaves as KeyboardInterrupt.
\* Then the loop starts: for i in range(seconds, 0, -1).
RP_Beep ==
    /\ fn = "_retry_pause" /\ pc = "rp_beep"
    /\ \/ /\ beeps' = IF beep THEN beeps + 1 ELSE beeps
          /\ loop_i' = seconds.n
          /\ pc' = "rp_count"
          /\ UNCHANGED <<log, ret, exitcode, ret_obj>>
       \/ /\ beep
          /\ beeps' = beeps + 1
          /\ Propagate
          /\ UNCHANGED loop_i
    /\ UNCHANGED <<fn, seconds_arg, seconds, beep, sleeps>>
    /\ UNCHANGED <<fetchVars, concVars, selectVars, loggingVars>>
    /\ UNCHANGED <<json_input, stop, data, keys, reverse, sortedRaises,
                   unique_values, round, prev>>

\* One round of the loop: print("Time left"); time.sleep(1), or the end of
\* the range; except KeyboardInterrupt: error_msg(...) with the default
\* stop=True.
RP_Count ==
    /\ fn = "_retry_pause" /\ pc = "rp_count"
    /\ IF loop_i >= 1
       THEN /\ sleeps' = sleeps + 1
            /\ \/ /\ loop_i' = loop_i - 1
                  /\ UNCHANGED <<pc, log, ret, exitcode, ret_obj>>
               \/ /\ Halt(error_msg(log,
                          "Newt.console._retry_pause : KeyboardInterrupt", TRUE))
                  /\ UNCHANGED loop_i
       ELSE /\ Return(log, PyNone)
            /\ UNCHANGED <<loop_i, sleeps>>
    /\ UNCHANGED <<fn, seconds_arg, seconds, beep, beeps>>
    /\ UNCHANGED <<fetchVars, concVars, selectVars, loggingVars>>
    /\ UNCHANGED <<json_input, stop, data, keys, reverse, sortedRaises,
                   unique_values, round, prev>>

InitPause ==
    /\ fn = "_retry_pause"
    /\ pc = "rp_validate"
    /\ log = <<>>
    /\ ret = NoValue
    /\ exitcode = -1
    /\ seconds_arg \in SecondsInputs
    /\ seconds = seconds_arg
    /\ beep \in BOOLEAN
    /\ loop_i = 0
    /\ sleeps = 0
    /\ beeps = 0
    /\ IdleSorting
    /\ IdleFetch
    /\ IdleConc
    /\ IdleSelect
    /\ IdleLogging

NextPause ==
    \/ RP_Validate
    \/ RP_Range
    \/ RP_Beep
    \/ RP_Count

SpecPause == InitPause /\ [][NextPause]_vars

\* The seconds the countdown is to count: the value passed when it is an
\* int of at least 1, else 5.
CountedSeconds ==
    IF isinstance(seconds_arg, {"int"}) /\ seconds_arg.n >= 1
    THEN seconds_arg.n
    ELSE DefaultSeconds

\* C30: the countdown of _retry_pause sleeps once per counted second, from
\* seconds down to 1: a call that returns has slept n times for an int
\* n >= 1 and 5 times for any other value, which was reported without
\* halting; the beep is made at most once and before the first sleep; the
\* call halts only on a keyboard interrupt during the countdown, with exit
\* code 1.
C30_CountdownSleeps ==
    /\ [](fn = "_retry_pause" =>
            /\ pc = "returned" => sleeps = CountedSeconds /\ ret = PyNone
            /\ pc = "rp_count" => sleeps = CountedSeconds - loop_i /\ loop_i >= 0
            /\ sleeps <= CountedSeconds
            /\ (pc \in {"rp_beep", "rp_count", "returned"}
                    /\ ~(isinstance(seconds_arg, {"int"}) /\ seconds_arg.n >= 1))
                  => Len(log) >= 1 /\ seconds = PyInt(DefaultSeconds)
            /\ beeps <= 1
            /\ pc = "halted" =>
                  /\ exitcode = 1
                  /\ sleeps >= 1
                  /\ log[Len(log)].location =
                        "Newt.console._retry_pause : KeyboardInterrupt")
    /\ [][beeps' # beeps => sleeps = 0 /\ pc = "rp_beep"]_vars

\* The call was passed seconds=0 and beep=True: it reported once, beeped
\* once, slept five times and returned.
C30_Witness ==
    /\ fn = "_retry_pause" /\ pc = "returned"
    /\ seconds_arg = PyInt(0) /\ beep
    /\ Len(log) = 1 /\ beeps = 1 /\ sleeps = 5

====
